---- MODULE Spec2Model ----
(***************************************************************************)
(* Model of convlab/agent/algorithm/base.py: the abstract Algorithm class, *)
(* its construction, its save/load lifecycle and its multi-body dispatch   *)
(* (space_act, space_sample, space_train, space_update).                   *)
(*                                                                         *)
(* A body is identified by its (e, b) coordinate in agent.body_a.  Values  *)
(* handed around by the program are tagged records [kind, v].  Attribute   *)
(* names are sequences of tokens; the token "_scheduler" stands for that   *)
(* substring, the other tokens for text that does not contain it.          *)
(***************************************************************************)
EXTENDS Integers, Sequences, FiniteSets, TLC

\* ---------------------------------------------------------------- bounds
MaxE == 2          \* environments (rows of body_a)
MaxB == 2          \* bodies per environment (columns of body_a)
MaxBodies == 2     \* bodies of one agent
NumStates == 2     \* distinct observations
NumWeights == 2    \* distinct network weight values
MaxBatch == 2      \* largest per-body batch
MaxScheds == 2     \* attributes of the algorithm walked by load()

\* ---------------------------------------------------------------- values
NAN == [kind |-> "nan", v |-> 0]
NoValue == [kind |-> "novalue", v |-> 0]
None == [kind |-> "none", v |-> 0]
Num(n) == [kind |-> "num", v |-> n]

Coords == (0 .. MaxE - 1) \X (0 .. MaxB - 1)
NoBody == <<MaxE, MaxB>>
Idx(c) == c[1] * MaxB + c[2]
\* body_a is ragged: environment e holds bodies 0 .. n[e] - 1, the rest of its
\* row is empty, and an environment may hold no body of this agent at all
Ragged(n) == {c \in Coords : c[2] < n[c[1]]}
Layouts ==
    {L \in {Ragged(n) : n \in [0 .. MaxE - 1 -> 0 .. MaxB]} :
        L # {} /\ Cardinality(L) <= MaxBodies}

Weights == 0 .. NumWeights - 1
NoCkpt == NumWeights
Tags == {"none", "c1"}

\* ------------------------------------------------------- attribute names
Suffix == "_scheduler"
AttrNames == { <<"x", Suffix>>, <<"y", Suffix>>, <<"x", Suffix, Suffix>>, <<Suffix, "y">> }
VarNames == { <<"x">>, <<"y">>, <<"x", Suffix>> }

\* the value a scheduler attribute named k decays to (distinct per attribute)
EndValOf(k) == Len(k) + (IF k[1] = "x" THEN 0 ELSE 3)

\* str.endswith('_scheduler')
endswith(k) == Len(k) > 0 /\ k[Len(k)] = Suffix

\* str.replace('_scheduler', ''): every occurrence is removed
SelectNot(t) == t # Suffix
replace(k) == SelectSeq(k, SelectNot)

\* k without its trailing '_scheduler'
StripSuffix(k) == SubSeq(k, 1, Len(k) - 1)

\* the attributes of the instance in insertion order: distinct names, each
\* with or without an end_val
SchedCfgs ==
    UNION { { s \in [1 .. n -> [k : AttrNames, has_end : BOOLEAN]] :
                \A i, j \in 1 .. n : i # j => s[i].k # s[j].k } : n \in 0 .. MaxScheds }

\* ----------------------------------------------------------------- state
VARIABLES
    phase,         \* "new" before Algorithm(agent), then "ready" or "failed"
    lab_mode,      \* process-wide lab mode
    agent_spec,    \* agent.agent_spec: [memory : is a 'memory' sub-spec present]
    body_a,        \* agent.body_a: the coordinates that hold a body
    subclass,      \* the concrete subclass: [train, init_nets] override kinds
    schedulers,    \* the attributes init_algorithm_params sets, insertion order
    load_prepath,  \* the checkpoint the net-load collaborator reads
    body,          \* self.body
    net_names,     \* hasattr(self, 'net_names')
    attrs,         \* names of the attributes __init__ itself has set
    weights,       \* the weights of the declared networks
    store,         \* persisted checkpoints: tag -> weights or NoCkpt
    bodyvars,      \* attributes of each body: coordinate -> name -> value
    init_log,      \* the steps __init__ has performed, in order
    saved_c1,      \* the weights at the latest completed save(ckpt='c1')
    last           \* the latest call: operation, arguments, outcome

vars == <<phase, lab_mode, agent_spec, body_a, subclass, schedulers, load_prepath,
          body, net_names, attrs, weights, store, bodyvars, init_log, saved_c1, last>>

\* ---------------------------------------------------------- collaborators
\* util.in_eval_lab_modes()
in_eval_lab_modes == lab_mode = "eval"

\* util.nanflatten(body_a): the bodies in row-major order, empty cells skipped
RECURSIVE nanflatten(_, _)
nanflatten(ba, i) ==
    IF i >= MaxE * MaxB THEN <<>>
    ELSE LET c == <<i \div MaxB, i % MaxB>>
         IN  (IF c \in ba THEN <<c>> ELSE <<>>) \o nanflatten(ba, i + 1)

\* agent.nanflat_body_a
nanflat_body_a == nanflatten(body_a, 0)

\* agent.body, the default body
agent_body == nanflat_body_a[1]

\* util.ndenumerate_nonan(body_a): the (e, b) of the non-empty cells, in order
ndenumerate_nonan(ba) == nanflatten(ba, 0)

\* aeb_space.init_data_s(names, a): a container with no value anywhere
init_data_s == [c \in Coords |-> NoValue]

\* util.concat_batches(batches): the batches joined in the order given
RECURSIVE concat_batches(_)
concat_batches(batches) ==
    IF batches = <<>> THEN <<>>
    ELSE Head(batches) \o concat_batches(Tail(batches))

\* util.to_torch_batch(batch, device, is_episodic): every entry converted in place
to_torch_batch(batch) == [i \in 1 .. Len(batch) |-> [batch[i] EXCEPT !.torch = TRUE]]

Ev(ev, b, arg, tag) == [ev |-> ev, body |-> b, arg |-> arg, tag |-> tag]

\* the running call: the instance's state, the calls made so far, the values
\* being built and the error raised, if any
Self ==
    [body |-> body, net_names |-> net_names, attrs |-> attrs, weights |-> weights,
     store |-> store, bodyvars |-> bodyvars, log |-> init_log,
     calls |-> <<>>, raised |-> "no",
     shape |-> "none", ret |-> None, data_a |-> init_data_s, batch |-> <<>>, acc |-> <<>>]

\* net_util.save_algorithm(algorithm, ckpt): persists the weights under the tag
save_algorithm(s, ckpt, io_ok) ==
    LET s1 == [s EXCEPT !.calls = Append(@, Ev("save_algorithm", s.body, 0, ckpt))]
    IN  IF ~io_ok THEN [s1 EXCEPT !.raised = "collaborator"]
        ELSE [s1 EXCEPT !.store[ckpt] = s.weights]

\* net_util.load_algorithm(algorithm): restores the weights persisted at the
\* place the agent is configured to load from; no tag is passed to it
load_algorithm(s, io_ok) ==
    LET s1 == [s EXCEPT !.calls = Append(@, Ev("load_algorithm", s.body, 0, load_prepath))]
    IN  IF ~io_ok \/ s.store[load_prepath] = NoCkpt THEN [s1 EXCEPT !.raised = "collaborator"]
        ELSE [s1 EXCEPT !.weights = s.store[load_prepath]]

\* -------------------------------------------------------------- lifecycle
\* save() without the hasattr(self, 'net_names') guard
save_unguarded(s, ckpt, io_ok) == save_algorithm(s, ckpt, io_ok)

\* Algorithm.save
save(s, ckpt, io_ok) ==
    IF ~s.net_names THEN s
    ELSE save_algorithm(s, ckpt, io_ok)

\* the loop of load() writing onto the agent's default body
RECURSIVE set_final_values_default_body(_, _)
set_final_values_default_body(s, i) ==
    IF i > Len(schedulers) THEN s
    ELSE LET k == schedulers[i].k
             var_name == replace(k)
         IN  IF endswith(k) /\ schedulers[i].has_end
             THEN set_final_values_default_body(
                      [s EXCEPT !.bodyvars[agent_body][var_name] = EndValOf(k),
                                !.calls = Append(@, Ev("setattr", agent_body, EndValOf(k), "body"))],
                      i + 1)
             ELSE set_final_values_default_body(s, i + 1)

\* the loop of load() without the hasattr(v, 'end_val') test
RECURSIVE set_final_values_any_attr(_, _)
set_final_values_any_attr(s, i) ==
    IF i > Len(schedulers) THEN s
    ELSE LET k == schedulers[i].k
             var_name == replace(k)
         IN  IF endswith(k)
             THEN set_final_values_any_attr(
                      [s EXCEPT !.bodyvars[s.body][var_name] = EndValOf(k),
                                !.calls = Append(@, Ev("setattr", s.body, EndValOf(k), "body"))],
                      i + 1)
             ELSE set_final_values_any_attr(s, i + 1)

\* the loop of load(): set decayable variables to final values
RECURSIVE set_final_values(_, _)
set_final_values(s, i) ==
    IF i > Len(schedulers) THEN s
    ELSE LET k == schedulers[i].k
             var_name == replace(k)
         IN  IF endswith(k) /\ schedulers[i].has_end
             THEN set_final_values(
                      [s EXCEPT !.bodyvars[s.body][var_name] = EndValOf(k),
                                !.calls = Append(@, Ev("setattr", s.body, EndValOf(k), "body"))],
                      i + 1)
             ELSE set_final_values(s, i + 1)

\* load() that goes on to the scheduler loop after the collaborator raised
load_keeps_going(s, io_ok) ==
    set_final_values(IF ~s.net_names THEN s ELSE load_algorithm(s, io_ok), 1)

\* Algorithm.load
load(s, io_ok) ==
    LET s1 == IF ~s.net_names THEN s ELSE load_algorithm(s, io_ok)
    IN  IF s1.raised # "no" THEN s1 ELSE set_final_values(s1, 1)

\* post_init_nets() that loads in every lab mode
post_init_nets_any_mode(s, io_ok) ==
    IF ~s.net_names THEN [s EXCEPT !.raised = "AssertionError"]
    ELSE load(s, io_ok)

\* Algorithm.post_init_nets
post_init_nets(s, io_ok) ==
    IF ~s.net_names THEN [s EXCEPT !.raised = "AssertionError"]
    ELSE IF in_eval_lab_modes THEN load(s, io_ok)
    ELSE s

\* ----------------------------------------------------------- construction
Step(s, name) == [s EXCEPT !.log = Append(@, [step |-> name, body |-> s.body])]

\* __init__, the attributes read from agent.agent_spec
capture(s) ==
    Step([s EXCEPT !.attrs = {"agent", "algorithm_spec", "name", "net_spec"}
                             \cup (IF agent_spec.memory THEN {"memory_spec"} ELSE {})],
         "capture")

\* __init__, self.body = self.agent.body
bind(s) == Step([s EXCEPT !.body = agent_body, !.attrs = @ \cup {"body"}], "bind")

\* the subclass's init_algorithm_params()
init_algorithm_params(s, ok) ==
    LET s1 == Step(s, "init_algorithm_params")
    IN  IF ok THEN s1 ELSE [s1 EXCEPT !.raised = "SpecError"]

\* the subclass's init_nets(global_nets): a subclass with networks creates
\* them, sets net_names and ends with post_init_nets()
init_nets(s, io_ok) ==
    LET s1 == Step(s, "init_nets")
    IN  CASE subclass.init_nets = "nets" ->
                post_init_nets([s1 EXCEPT !.net_names = TRUE, !.weights = 0], io_ok)
          [] subclass.init_nets = "post_first" -> post_init_nets(s1, io_ok)
          [] OTHER -> s1

\* __init__ that binds the body only after init_algorithm_params()
init_binds_late(s, ok, io_ok) ==
    LET s2 == capture(s)
        s3 == bind(init_algorithm_params(s2, ok))
    IN  IF s3.raised # "no" THEN s3 ELSE init_nets(s3, io_ok)

\* Algorithm.__init__
init(s, ok, io_ok) ==
    LET s2 == bind(capture(s))
        s3 == init_algorithm_params(s2, ok)
    IN  IF s3.raised # "no" THEN s3 ELSE init_nets(s3, io_ok)

\* ------------------------------------------------- single-body operations
\* what the policy computes for a body, a state and the current weights
ActionOf(b, state, w) ==
    [kind |-> "action", v |-> (Idx(b) * NumStates + state) * NumWeights + w]

\* the subclass's act(state)
act(s, state, ok) ==
    LET s1 == [s EXCEPT !.calls = Append(@, Ev("act", s.body, state, "none"))]
    IN  IF ~ok THEN [s1 EXCEPT !.raised = "NotImplementedError"]
        ELSE [s1 EXCEPT !.ret = ActionOf(s.body, state, s.weights)]

\* the batch the memory of body b holds
BatchSize(b) == MaxBatch - (Idx(b) % MaxBatch)
BatchOf(b) == [j \in 1 .. BatchSize(b) |-> [body |-> b, j |-> j, torch |-> FALSE]]

\* the subclass's sample()
sample(s, ok) ==
    LET s1 == [s EXCEPT !.calls = Append(@, Ev("sample", s.body, 0, "none"))]
    IN  IF ~ok THEN [s1 EXCEPT !.raised = "Error"]
        ELSE [s1 EXCEPT !.batch = BatchOf(s.body)]

\* one training step of the subclass on the current body
training_step(s, ok) ==
    LET s1 == [s EXCEPT !.calls = Append(@, Ev("training_step", s.body, s.weights, "none"))]
    IN  IF ~ok THEN [s1 EXCEPT !.raised = "Error"]
        ELSE [s1 EXCEPT !.weights = (s.weights + 1) % NumWeights,
                        !.ret = Num(Idx(s.body) * NumWeights + s.weights)]

\* Algorithm.train, the body of the abstract method
base_train(s) ==
    IF in_eval_lab_modes THEN [s EXCEPT !.ret = NAN]
    ELSE [s EXCEPT !.raised = "NotImplementedError"]

\* self.train(): the subclass's override, which the abstract method obliges
\* it to write; it delegates to the base, repeats the mode check, or neither
train(s, ok) ==
    LET s1 == [s EXCEPT !.calls = Append(@, Ev("train", s.body, 0, "none"))]
    IN  CASE subclass.train = "base" -> base_train(s1)
          [] subclass.train = "check" ->
                IF in_eval_lab_modes THEN [s1 EXCEPT !.ret = NAN] ELSE training_step(s1, ok)
          [] OTHER -> training_step(s1, ok)

\* the subclass's update()
update(s, ok) ==
    LET s1 == [s EXCEPT !.calls = Append(@, Ev("update", s.body, 0, "none"))]
    IN  IF ~ok THEN [s1 EXCEPT !.raised = "Error"]
        ELSE [s1 EXCEPT !.ret = Num(Idx(s.body))]

\* ---------------------------------------------------------------- dispatch
\* the zip of nanflat_to_data_a giving every body the first value
RECURSIVE zip_into_first(_, _, _)
zip_into_first(data_a, flat, i) ==
    IF i > Len(nanflat_body_a) \/ i > Len(flat) THEN data_a
    ELSE zip_into_first([data_a EXCEPT ![nanflat_body_a[i]] = flat[1]], flat, i + 1)

\* Algorithm.nanflat_to_data_a
RECURSIVE zip_into(_, _, _)
zip_into(data_a, flat, i) ==
    IF i > Len(nanflat_body_a) \/ i > Len(flat) THEN data_a
    ELSE zip_into([data_a EXCEPT ![nanflat_body_a[i]] = flat[i]], flat, i + 1)

nanflat_to_data_a(data_name, nanflat_data_a) == zip_into(init_data_s, nanflat_data_a, 1)

\* a flat sequence of len values, each telling its position
FlatOf(len) == [i \in 1 .. len |-> Num(len + i)]

\* the state container handed to space_act
StateA(seed) == [c \in Coords |-> (seed + Idx(c)) % NumStates]

\* the loop of space_act without self.body = body
RECURSIVE space_act_loop_unbound(_, _, _, _)
space_act_loop_unbound(s, state_a, i, fail) ==
    LET ebs == ndenumerate_nonan(body_a)
    IN  IF i > Len(ebs) THEN s
        ELSE LET eb == ebs[i]
                 r == act(s, state_a[eb], i # fail)
             IN  IF r.raised # "no" THEN r
                 ELSE space_act_loop_unbound([r EXCEPT !.data_a[eb] = r.ret],
                                             state_a, i + 1, fail)

\* space_act, the loop over ndenumerate_nonan(body_a)
RECURSIVE space_act_loop(_, _, _, _)
space_act_loop(s, state_a, i, fail) ==
    LET ebs == ndenumerate_nonan(body_a)
    IN  IF i > Len(ebs) THEN s
        ELSE LET eb == ebs[i]
                 r == act([s EXCEPT !.body = eb], state_a[eb], i # fail)
             IN  IF r.raised # "no" THEN r
                 ELSE space_act_loop([r EXCEPT !.data_a[eb] = r.ret], state_a, i + 1, fail)

\* space_act that sets the body reference back also when act() raised
space_act_finally(s, state_a, fail) ==
    LET r == space_act_loop([s EXCEPT !.data_a = init_data_s], state_a, 1, fail)
    IN  IF r.raised # "no" THEN [r EXCEPT !.body = nanflat_body_a[1]]
        ELSE [r EXCEPT !.body = nanflat_body_a[1], !.shape = "container", !.ret = None]

\* Algorithm.space_act
space_act(s, state_a, fail) ==
    LET r == space_act_loop([s EXCEPT !.data_a = init_data_s], state_a, 1, fail)
    IN  IF r.raised # "no" THEN r
        ELSE [r EXCEPT !.body = nanflat_body_a[1], !.shape = "container", !.ret = None]

\* the loop of space_sample putting each batch in front of the earlier ones
RECURSIVE space_sample_loop_prepend(_, _, _)
space_sample_loop_prepend(s, i, fail) ==
    IF i > Len(nanflat_body_a) THEN s
    ELSE LET r == sample([s EXCEPT !.body = nanflat_body_a[i]], i # fail)
         IN  IF r.raised # "no" THEN r
             ELSE space_sample_loop_prepend([r EXCEPT !.acc = <<r.batch>> \o @], i + 1, fail)

\* space_sample, the loop over nanflat_body_a
RECURSIVE space_sample_loop(_, _, _)
space_sample_loop(s, i, fail) ==
    IF i > Len(nanflat_body_a) THEN s
    ELSE LET r == sample([s EXCEPT !.body = nanflat_body_a[i]], i # fail)
         IN  IF r.raised # "no" THEN r
             ELSE space_sample_loop([r EXCEPT !.acc = Append(@, r.batch)], i + 1, fail)

\* Algorithm.space_sample; self.net exists when the subclass declared networks
space_sample(s, fail) ==
    LET r == space_sample_loop([s EXCEPT !.acc = <<>>], 1, fail)
    IN  IF r.raised # "no" THEN r
        ELSE LET r1 == [r EXCEPT !.body = nanflat_body_a[1]]
             IN  IF ~r1.net_names THEN [r1 EXCEPT !.raised = "AttributeError"]
                 ELSE [r1 EXCEPT !.batch = to_torch_batch(concat_batches(r.acc)),
                                 !.shape = "batch"]

\* the loop of space_train without self.body = body
RECURSIVE space_train_loop_unbound(_, _, _)
space_train_loop_unbound(s, i, fail) ==
    IF i > Len(nanflat_body_a) THEN s
    ELSE LET r == train(s, i # fail)
         IN  IF r.raised # "no" THEN r
             ELSE space_train_loop_unbound([r EXCEPT !.acc = Append(@, r.ret)], i + 1, fail)

\* space_train, the loop over nanflat_body_a
RECURSIVE space_train_loop(_, _, _)
space_train_loop(s, i, fail) ==
    IF i > Len(nanflat_body_a) THEN s
    ELSE LET r == train([s EXCEPT !.body = nanflat_body_a[i]], i # fail)
         IN  IF r.raised # "no" THEN r
             ELSE space_train_loop([r EXCEPT !.acc = Append(@, r.ret)], i + 1, fail)

\* Algorithm.space_train
space_train(s, fail) ==
    IF in_eval_lab_modes THEN [s EXCEPT !.ret = NAN, !.shape = "scalar"]
    ELSE LET r == space_train_loop([s EXCEPT !.acc = <<>>], 1, fail)
         IN  IF r.raised # "no" THEN r
             ELSE [r EXCEPT !.body = nanflat_body_a[1], !.ret = None, !.shape = "container",
                            !.data_a = nanflat_to_data_a("loss", r.acc)]

\* space_update, the loop over nanflat_body_a
RECURSIVE space_update_loop(_, _, _)
space_update_loop(s, i, fail) ==
    IF i > Len(nanflat_body_a) THEN s
    ELSE LET r == update([s EXCEPT !.body = nanflat_body_a[i]], i # fail)
         IN  IF r.raised # "no" THEN r
             ELSE space_update_loop([r EXCEPT !.acc = Append(@, r.ret)], i + 1, fail)

\* Algorithm.space_update
space_update(s, fail) ==
    LET r == space_update_loop([s EXCEPT !.acc = <<>>], 1, fail)
    IN  IF r.raised # "no" THEN r
        ELSE [r EXCEPT !.body = nanflat_body_a[1], !.ret = None, !.shape = "container",
                       !.data_a = nanflat_to_data_a("explore_var", r.acc)]

\* ------------------------------------------------------------- the calls
\* what the caller sees of a call: nothing is returned when it raised
Outcome(op, s, arg, tag) ==
    [op |-> op, arg |-> arg, tag |-> tag, raised |-> s.raised, calls |-> s.calls,
     shape |-> IF s.raised = "no" THEN s.shape ELSE "none",
     ret |-> IF s.raised = "no" THEN s.ret ELSE None,
     data_a |-> IF s.raised = "no" THEN s.data_a ELSE init_data_s,
     batch |-> IF s.raised = "no" THEN s.batch ELSE <<>>,
     pre_body |-> body, pre_weights |-> weights]

\* the instance's state after the call
Commit(s) ==
    /\ body' = s.body
    /\ net_names' = s.net_names
    /\ attrs' = s.attrs
    /\ weights' = s.weights
    /\ store' = s.store
    /\ bodyvars' = s.bodyvars
    /\ init_log' = s.log
    /\ UNCHANGED <<lab_mode, agent_spec, body_a, subclass, schedulers, load_prepath>>

\* which body's single-body call raises, if any
Fails == 0 .. Len(nanflat_body_a)

Construct(IO) ==
    /\ phase = "new"
    /\ \E ok \in IO, io_ok \in IO :
          \E s \in {init(Self, ok, io_ok)} :
              /\ Commit(s)
              /\ phase' = IF s.raised = "no" THEN "ready" ELSE "failed"
              /\ last' = Outcome("__init__", s, 0, "none")
    /\ UNCHANGED saved_c1

Save(T, IO) ==
    /\ phase = "ready"
    /\ \E ckpt \in T, io_ok \in IO :
          \E s \in {save(Self, ckpt, io_ok)} :
              /\ Commit(s)
              /\ last' = Outcome("save", s, 0, ckpt)
              /\ saved_c1' = IF ckpt = "c1" /\ s.raised = "no" /\ net_names
                             THEN weights ELSE saved_c1
    /\ UNCHANGED phase

Load(IO) ==
    /\ phase = "ready"
    /\ \E io_ok \in IO :
          \E s \in {load(Self, io_ok)} :
              /\ Commit(s)
              /\ last' = Outcome("load", s, 0, "none")
    /\ UNCHANGED <<phase, saved_c1>>

PostInitNets(IO) ==
    /\ phase = "ready"
    /\ \E io_ok \in IO :
          \E s \in {post_init_nets(Self, io_ok)} :
              /\ Commit(s)
              /\ last' = Outcome("post_init_nets", s, 0, "none")
    /\ UNCHANGED <<phase, saved_c1>>

Act ==
    /\ phase = "ready"
    /\ \E state \in 0 .. NumStates - 1, ok \in BOOLEAN :
          \E s \in {act(Self, state, ok)} :
              /\ Commit([s EXCEPT !.shape = "scalar"])
              /\ last' = Outcome("act", [s EXCEPT !.shape = "scalar"], state, "none")
    /\ UNCHANGED <<phase, saved_c1>>

Sample ==
    /\ phase = "ready"
    /\ \E ok \in BOOLEAN :
          \E s \in {sample(Self, ok)} :
              /\ Commit(s)
              /\ last' = Outcome("sample", [s EXCEPT !.shape = "batch"], 0, "none")
    /\ UNCHANGED <<phase, saved_c1>>

Train ==
    /\ phase = "ready"
    /\ \E ok \in BOOLEAN :
          \E s \in {train(Self, ok)} :
              /\ Commit(s)
              /\ last' = Outcome("train", [s EXCEPT !.shape = "scalar"], 0, "none")
    /\ UNCHANGED <<phase, saved_c1>>

Update ==
    /\ phase = "ready"
    /\ \E ok \in BOOLEAN :
          \E s \in {update(Self, ok)} :
              /\ Commit(s)
              /\ last' = Outcome("update", [s EXCEPT !.shape = "scalar"], 0, "none")
    /\ UNCHANGED <<phase, saved_c1>>

NanflatToDataA ==
    /\ phase = "ready"
    /\ \E len \in 0 .. MaxBodies + 1 :
          \E s \in {[Self EXCEPT !.data_a = nanflat_to_data_a("data", FlatOf(len)),
                                 !.shape = "container"]} :
              /\ Commit(s)
              /\ last' = Outcome("nanflat_to_data_a", s, len, "none")
    /\ UNCHANGED <<phase, saved_c1>>

SpaceAct ==
    /\ phase = "ready"
    /\ \E seed \in 0 .. NumStates - 1, fail \in Fails :
          \E s \in {space_act(Self, StateA(seed), fail)} :
              /\ Commit(s)
              /\ last' = Outcome("space_act", s, seed, "none")
    /\ UNCHANGED <<phase, saved_c1>>

SpaceSample ==
    /\ phase = "ready"
    /\ \E fail \in Fails :
          \E s \in {space_sample(Self, fail)} :
              /\ Commit(s)
              /\ last' = Outcome("space_sample", s, 0, "none")
    /\ UNCHANGED <<phase, saved_c1>>

SpaceTrain ==
    /\ phase = "ready"
    /\ \E fail \in Fails :
          \E s \in {space_train(Self, fail)} :
              /\ Commit(s)
              /\ last' = Outcome("space_train", s, 0, "none")
    /\ UNCHANGED <<phase, saved_c1>>

SpaceUpdate ==
    /\ phase = "ready"
    /\ \E fail \in Fails :
          \E s \in {space_update(Self, fail)} :
              /\ Commit(s)
              /\ last' = Outcome("space_update", s, 0, "none")
    /\ UNCHANGED <<phase, saved_c1>>

\* ----------------------------------------------------------- specification
\* the state before Algorithm(agent, global_nets) is called
InitCommon ==
    /\ phase = "new"
    /\ lab_mode \in {"train", "eval"}
    /\ body = NoBody
    /\ net_names = FALSE
    /\ attrs = {}
    /\ weights = 0
    /\ bodyvars = [c \in Coords |-> [n \in VarNames |-> 0]]
    /\ init_log = <<>>
    /\ saved_c1 = NoCkpt
    /\ last = [op |-> "none", arg |-> 0, tag |-> "none", raised |-> "no", calls |-> <<>>,
               shape |-> "none", ret |-> None, data_a |-> init_data_s, batch |-> <<>>,
               pre_body |-> NoBody, pre_weights |-> 0]

\* dispatch: every body layout and train() override, one checkpoint on disk,
\* no schedulers
Init ==
    /\ InitCommon
    /\ body_a \in Layouts
    /\ agent_spec = [memory |-> TRUE]
    /\ subclass \in [train : {"base", "check", "plain"}, init_nets : {"nets"}]
                    \cup [train : {"check"}, init_nets : {"no_nets"}]
    /\ schedulers = <<>>
    /\ load_prepath = "none"
    /\ store = [t \in Tags |-> IF t = load_prepath THEN NumWeights - 1 ELSE NoCkpt]

Next ==
    \/ Construct({TRUE})
    \/ Load({TRUE})
    \/ Train
    \/ NanflatToDataA
    \/ SpaceAct
    \/ SpaceSample
    \/ SpaceTrain
    \/ SpaceUpdate

Spec == Init /\ [][Next]_vars

\* checkpoints: at most one body per environment, every init_nets kind, every place to load
\* from, with or without a checkpoint there; collaborators may fail
CkptLayouts == {L \in Layouts : \A c \in L : c[2] = 0}

InitCkpt ==
    /\ InitCommon
    /\ body_a \in CkptLayouts
    /\ agent_spec \in [memory : BOOLEAN]
    /\ subclass \in [train : {"check"}, init_nets : {"nets", "no_nets", "post_first"}]
    /\ schedulers \in {<<>>, <<[k |-> <<"x", Suffix>>, has_end |-> TRUE]>>}
    /\ load_prepath \in Tags
    /\ \E prior \in Weights \cup {NoCkpt} :
          store = [t \in Tags |-> IF t = load_prepath THEN prior ELSE NoCkpt]

NextCkpt ==
    \/ Construct(BOOLEAN)
    \/ Save(Tags, BOOLEAN)
    \/ Load(BOOLEAN)
    \/ PostInitNets(BOOLEAN)
    \/ Act
    \/ Sample
    \/ Train
    \/ Update

SpecCkpt == InitCkpt /\ [][NextCkpt]_vars

\* schedulers: every set of scheduler attributes, at most one body per
\* environment
InitSched ==
    /\ InitCommon
    /\ body_a \in CkptLayouts
    /\ agent_spec = [memory |-> TRUE]
    /\ subclass \in [train : {"check"}, init_nets : {"nets", "no_nets"}]
    /\ schedulers \in SchedCfgs
    /\ load_prepath = "none"
    /\ store = [t \in Tags |-> IF t = load_prepath THEN NumWeights - 1 ELSE NoCkpt]

NextSched ==
    \/ Construct({TRUE})
    \/ Load(BOOLEAN)
    \/ PostInitNets({TRUE})
    \/ SpaceUpdate

SpecSched == InitSched /\ [][NextSched]_vars

\* ------------------------------------------------------------------ claims
DispatchOps == {"space_act", "space_sample", "space_train", "space_update"}
Returned(op) == last.op = op /\ last.raised = "no"
Called(ev) == \E i \in 1 .. Len(last.calls) : last.calls[i].ev = ev

\* C1: after any of the four dispatch calls returns, self.body is the first
\* body of the flattened body list, in every lab mode and whichever body was
\* current before the call.
C1_BodyRestoredAfterDispatch ==
    (last.op \in DispatchOps /\ last.raised = "no") => body = nanflat_body_a[1]

\* C2: in evaluation mode space_train returns one NaN at every coordinate
\* that holds a body, and never calls the single-body train().
C2_EvalSpaceTrainNanPerBody ==
    (Returned("space_train") /\ in_eval_lab_modes) =>
        /\ last.shape = "container"
        /\ \A c \in Coords : last.data_a[c] = IF c \in body_a THEN NAN ELSE NoValue
        /\ ~Called("train")

\* C3: in evaluation mode a direct train() on any concrete subclass returns
\* NaN and runs no training step, whatever the subclass's override does.
C3_EvalTrainSuppressed ==
    (Returned("train") /\ in_eval_lab_modes) =>
        /\ last.ret = NAN
        /\ ~Called("training_step")

\* C6: space_act fills exactly the coordinates of body_a that hold a body,
\* each with act(state_a[eb]) computed while that body is the current body,
\* leaves every other coordinate without a value, and with a single body
\* gives what a direct act() on that state gives.
C6_SpaceActPopulatesBodies ==
    Returned("space_act") =>
        LET state_a == StateA(last.arg)
            ebs == ndenumerate_nonan(body_a)
        IN  /\ last.shape = "container"
            /\ \A c \in Coords :
                  last.data_a[c] = IF c \in body_a
                                   THEN ActionOf(c, state_a[c], last.pre_weights)
                                   ELSE NoValue
            /\ Len(last.calls) = Cardinality(body_a)
            /\ \A i \in 1 .. Len(last.calls) :
                  last.calls[i] = Ev("act", ebs[i], state_a[ebs[i]], "none")
            /\ Cardinality(body_a) = 1 =>
                  last.data_a[body] = act(Self, state_a[body], TRUE).ret

C6_Witness ==
    /\ Returned("space_act")
    /\ Cardinality(body_a) = 2
    /\ <<0, 0>> \notin body_a
    /\ last.pre_body # nanflat_body_a[1]

\* C7: space_sample calls sample() once per body in flattened order and
\* returns one batch, as long as the per-body batches together, in which the
\* entries of body i come before those of body j for i < j, each body's
\* entries in their own order.
RECURSIVE Offset(_)
Offset(i) == IF i <= 1 THEN 0 ELSE Offset(i - 1) + BatchSize(nanflat_body_a[i - 1])

C7_SpaceSampleConcatenates ==
    Returned("space_sample") =>
        LET n == Len(nanflat_body_a)
        IN  /\ last.calls = [i \in 1 .. n |-> Ev("sample", nanflat_body_a[i], 0, "none")]
            /\ Len(last.batch) = Offset(n + 1)
            /\ \A i \in 1 .. n : \A j \in 1 .. BatchSize(nanflat_body_a[i]) :
                  /\ last.batch[Offset(i) + j].body = nanflat_body_a[i]
                  /\ last.batch[Offset(i) + j].j = j

C7_Witness ==
    /\ Returned("space_sample")
    /\ Len(nanflat_body_a) >= 2
    /\ BatchSize(nanflat_body_a[1]) # BatchSize(nanflat_body_a[2])
    /\ Len(last.batch) >= 3

\* C4: after load() returns, for every attribute named X_scheduler that has
\* an end_val v, the current body's attribute X equals v; an attribute
\* without end_val causes no write.
HasEndVal(i) == endswith(schedulers[i].k) /\ schedulers[i].has_end

C4_LoadSetsStrippedName ==
    Returned("load") =>
        /\ \A i \in 1 .. Len(schedulers) :
              HasEndVal(i) =>
                  bodyvars[body][StripSuffix(schedulers[i].k)] = EndValOf(schedulers[i].k)
        /\ Cardinality({j \in 1 .. Len(last.calls) : last.calls[j].ev = "setattr"})
              = Cardinality({i \in 1 .. Len(schedulers) : HasEndVal(i)})

\* C5: without net_names, save(ckpt) and load() return without raising and
\* call neither collaborator; with net_names, save(ckpt) calls the net-save
\* collaborator exactly once, with the instance and that tag, and load()
\* calls the net-load collaborator exactly once.
CallsOf(ev) == {i \in 1 .. Len(last.calls) : last.calls[i].ev = ev}

C5_SaveLoadCollaborators ==
    /\ (last.op \in {"save", "load"} /\ ~net_names) =>
          /\ last.raised = "no"
          /\ CallsOf("save_algorithm") = {}
          /\ CallsOf("load_algorithm") = {}
    /\ (last.op = "save" /\ net_names) =>
          /\ last.calls = <<Ev("save_algorithm", body, 0, last.tag)>>
    /\ (last.op = "load" /\ net_names) =>
          /\ Cardinality(CallsOf("load_algorithm")) = 1
          /\ CallsOf("save_algorithm") = {}

C5_Witness ==
    /\ Returned("save")
    /\ net_names
    /\ last.tag = "c1"
    /\ store["c1"] = 1

InitOrder == <<"capture", "bind", "init_algorithm_params", "init_nets">>

C9_ConstructionOrder ==
    phase # "new" =>
        /\ Len(init_log) <= Len(InitOrder)
        /\ \A i \in 1 .. Len(init_log) : init_log[i].step = InitOrder[i]
        /\ phase = "ready" => Len(init_log) = Len(InitOrder)
        /\ Len(init_log) >= 3
        /\ init_log[1].body = NoBody
        /\ \A i \in 2 .. Len(init_log) : init_log[i].body = agent_body
        /\ {"algorithm_spec", "name", "net_spec", "body"} \subseteq attrs
        /\ "memory_spec" \in attrs <=> agent_spec.memory

C9_Witness ==
    /\ phase = "ready"
    /\ last.op = "__init__"
    /\ agent_spec.memory
    /\ agent_body = <<MaxE - 1, 0>>
    /\ Len(init_log) = 4

\* the post_init_nets() call that the subclass's init_nets() makes in __init__
PostInitNetsInInit ==
    (last'.op = "__init__" /\ phase = "new" /\ Len(init_log') = 4) =>
        /\ subclass.init_nets = "post_first" =>
              /\ last'.raised = "AssertionError"
              /\ last'.calls = <<>>
        /\ (subclass.init_nets = "nets" /\ in_eval_lab_modes) =>
              /\ last'.calls # <<>>
              /\ last'.calls[1].ev = "load_algorithm"
              /\ \A i \in 2 .. Len(last'.calls) : last'.calls[i].ev = "setattr"
        /\ (subclass.init_nets = "nets" /\ ~in_eval_lab_modes) =>
              /\ last'.raised = "no"
              /\ last'.calls = <<>>

\* C10: post_init_nets fails with an assertion before any load when
\* net_names is not set; with net_names in an evaluation mode it performs
\* load() once; with net_names in another mode it loads nothing and changes
\* no state.
\* The same holds of the call the subclass's init_nets() makes.
C10_PostInitNets ==
    [][/\ PostInitNetsInInit
       /\ (last'.op = "post_init_nets" /\ phase = "ready") =>
              /\ ~net_names =>
                    /\ last'.raised = "AssertionError"
                    /\ last'.calls = <<>>
              /\ (net_names /\ in_eval_lab_modes) =>
                    /\ last'.calls # <<>>
                    /\ last'.calls[1].ev = "load_algorithm"
                    /\ \A i \in 2 .. Len(last'.calls) : last'.calls[i].ev = "setattr"
              /\ (net_names /\ ~in_eval_lab_modes) =>
                    /\ last'.raised = "no"
                    /\ last'.calls = <<>>
              /\ (~net_names \/ ~in_eval_lab_modes) =>
                    UNCHANGED <<body, net_names, attrs, weights, store, bodyvars, init_log>>
      ]_vars

C10_Witness ==
    /\ Returned("post_init_nets")
    /\ net_names
    /\ in_eval_lab_modes
    /\ Len(last.calls) = 2
    /\ weights = store[load_prepath]
    /\ bodyvars[body][<<"x">>] = EndValOf(<<"x", Suffix>>)

\* the writes of terminal values a call made, and the calls that run load()
Writes(l) == {j \in 1 .. Len(l.calls) : l.calls[j].ev = "setattr"}
WithEndVal == {i \in 1 .. Len(schedulers) : HasEndVal(i)}

\* C11: over any sequence of operations on one instance, each decayable
\* variable is written to its scheduler's terminal value exactly once, and
\* only inside load(): a call that writes terminal values finds none of
\* them written before.
C11_TerminalValueWrittenOnce ==
    [][/\ bodyvars' # bodyvars => last'.op \in {"load", "post_init_nets", "__init__"}
       /\ Writes(last') # {} =>
              \A i \in WithEndVal : bodyvars[body'][replace(schedulers[i].k)] = 0
      ]_vars

\* C11, amended: terminal values are written only inside load(), called
\* directly or by post_init_nets() in an evaluation mode; every load() that
\* returns writes once for each scheduler attribute with an end_val, onto
\* the current body, whether or not it was written before, and a load()
\* that raises writes nothing.
C11_TerminalValuesOnlyInLoad ==
    [][/\ bodyvars' # bodyvars => Writes(last') # {}
       /\ Writes(last') # {} =>
              \/ last'.op = "load"
              \/ /\ last'.op \in {"post_init_nets", "__init__"}
                 /\ in_eval_lab_modes
                 /\ net_names'
       /\ (last'.op = "load" /\ phase = "ready") =>
              /\ Cardinality(Writes(last'))
                    = IF last'.raised = "no" THEN Cardinality(WithEndVal) ELSE 0
              /\ \A j \in Writes(last') : last'.calls[j].body = body
              /\ \A i \in WithEndVal :
                    last'.raised = "no" =>
                        \E j \in Writes(last') : last'.calls[j].arg = EndValOf(schedulers[i].k)
      ]_vars

C11_Witness ==
    /\ Returned("load")
    /\ last.pre_weights = weights
    /\ net_names
    /\ Cardinality(WithEndVal) = 1
    /\ Cardinality(Writes(last)) = 1
    /\ \E i \in 1 .. Len(schedulers) : ~schedulers[i].has_end

\* the calls of one single-body operation a dispatch call made, in order
IsTrain(e) == e.ev = "train"
IsTrainingStep(e) == e.ev = "training_step"

\* C12: outside evaluation mode space_train, and in any mode space_update,
\* go through the flattened body list in its order and call train() /
\* update() exactly once per body while that body is the current body; the
\* value the call returned for body i is what the result container holds at
\* body i's coordinate, and no other coordinate holds a value.
C12_TrainUpdatePerBody ==
    /\ (Returned("space_train") /\ ~in_eval_lab_modes) =>
          LET trains == SelectSeq(last.calls, IsTrain)
              steps == SelectSeq(last.calls, IsTrainingStep)
          IN  /\ Len(trains) = Len(nanflat_body_a)
              /\ Len(steps) = Len(nanflat_body_a)
              /\ last.shape = "container"
              /\ \A i \in 1 .. Len(nanflat_body_a) :
                    /\ trains[i].body = nanflat_body_a[i]
                    /\ steps[i].body = nanflat_body_a[i]
                    /\ steps[i].arg = (last.pre_weights + i - 1) % NumWeights
                    /\ last.data_a[nanflat_body_a[i]]
                          = Num(Idx(nanflat_body_a[i]) * NumWeights + steps[i].arg)
              /\ \A c \in Coords \ body_a : last.data_a[c] = NoValue
    /\ Returned("space_update") =>
          /\ last.calls = [i \in 1 .. Len(nanflat_body_a) |->
                              Ev("update", nanflat_body_a[i], 0, "none")]
          /\ last.shape = "container"
          /\ \A i \in 1 .. Len(nanflat_body_a) :
                last.data_a[nanflat_body_a[i]] = Num(Idx(nanflat_body_a[i]))
          /\ \A c \in Coords \ body_a : last.data_a[c] = NoValue

C12_Witness ==
    /\ Returned("space_train")
    /\ ~in_eval_lab_modes
    /\ Len(nanflat_body_a) = 2
    /\ last.pre_body = nanflat_body_a[2]
    /\ last.pre_weights = 1
    /\ last.data_a[nanflat_body_a[2]] = Num(Idx(nanflat_body_a[2]) * NumWeights)

\* C13: nanflat_to_data_a(name, values), for any flat sequence of values:
\* every body of the flattened body list is in the returned container at
\* its own coordinate with the value at its own position in the sequence,
\* and every coordinate without a body holds the 'no value' sentinel.
C13_EveryBodyPlaced ==
    last.op = "nanflat_to_data_a" =>
        /\ \A i \in 1 .. Len(nanflat_body_a) :
              /\ last.data_a[nanflat_body_a[i]] # NoValue
              /\ i <= last.arg => last.data_a[nanflat_body_a[i]] = FlatOf(last.arg)[i]
        /\ \A c \in Coords \ body_a : last.data_a[c] = NoValue

\* C13, amended: the i-th body of the flattened body list holds the i-th
\* value at its own coordinate when the sequence has an i-th value and the
\* 'no value' sentinel when the sequence is shorter; every coordinate
\* without a body holds the sentinel, and values beyond the number of
\* bodies are dropped. With at least one value per body every body is
\* placed.
C13_BodiesPlacedUpToLength ==
    last.op = "nanflat_to_data_a" =>
        /\ last.raised = "no"
        /\ last.shape = "container"
        /\ \A i \in 1 .. Len(nanflat_body_a) :
              last.data_a[nanflat_body_a[i]]
                  = IF i <= last.arg THEN FlatOf(last.arg)[i] ELSE NoValue
        /\ \A c \in Coords \ body_a : last.data_a[c] = NoValue
        /\ last.arg >= Len(nanflat_body_a) =>
              {c \in Coords : last.data_a[c] # NoValue} = body_a

C13_Witness ==
    /\ last.op = "nanflat_to_data_a"
    /\ Len(nanflat_body_a) = 2
    /\ last.arg = 2
    /\ last.data_a[nanflat_body_a[1]] = Num(3)
    /\ last.data_a[nanflat_body_a[2]] = Num(4)
    /\ \E c \in Coords \ body_a : Idx(c) < Idx(nanflat_body_a[2])

\* C14: when the net-save or net-load collaborator raises, save() / load()
\* raise that error, having called the collaborator once and nothing else,
\* and a failed load() writes no terminal value onto any body; save() and
\* load() raise no other error.
C14_CollaboratorErrorPropagates ==
    [][/\ (phase = "ready" /\ net_names) =>
              /\ \A ckpt \in Tags :
                    LET r == save(Self, ckpt, FALSE)
                    IN  /\ r.raised = "collaborator"
                        /\ r.calls = <<Ev("save_algorithm", body, 0, ckpt)>>
              /\ LET r == load(Self, FALSE)
                 IN  /\ r.raised = "collaborator"
                     /\ r.calls = <<Ev("load_algorithm", body, 0, load_prepath)>>
                     /\ r.bodyvars = bodyvars
       /\ (phase = "ready" /\ last'.op \in {"save", "load"} /\ last'.raised # "no") =>
              /\ last'.raised = "collaborator"
              /\ Len(last'.calls) = 1
              /\ last'.calls[1].ev = IF last'.op = "save" THEN "save_algorithm"
                                     ELSE "load_algorithm"
              /\ Writes(last') = {}
              /\ UNCHANGED <<body, net_names, attrs, weights, store, bodyvars>>
      ]_vars

C14_Witness ==
    /\ last.op = "load"
    /\ last.raised = "collaborator"
    /\ store[load_prepath] # NoCkpt
    /\ schedulers # <<>>
    /\ HasEndVal(1)
    /\ bodyvars[body][replace(schedulers[1].k)] = 0

\* C15: in load(), the body attribute written for a scheduler attribute k
\* that ends with '_scheduler' is k without that trailing suffix, also when
\* '_scheduler' occurs earlier in k; so distinct scheduler attributes write
\* distinct body attributes.
C15_TrailingSuffixStripped ==
    Returned("load") =>
        /\ \A i \in WithEndVal : replace(schedulers[i].k) = StripSuffix(schedulers[i].k)
        /\ \A i, j \in WithEndVal :
              i # j => replace(schedulers[i].k) # replace(schedulers[j].k)
        /\ {n \in VarNames : bodyvars[body][n] # 0}
              = {StripSuffix(schedulers[i].k) : i \in WithEndVal}

\* the single-body operation of each dispatch call, and its calls
SingleOp ==
    [op \in DispatchOps |->
        CASE op = "space_act" -> "act"
          [] op = "space_sample" -> "sample"
          [] op = "space_train" -> "train"
          [] OTHER -> "update"]
IsSingleOp(e) == e.ev \in {"act", "sample", "train", "update"}

\* a dispatch call in which the single-body operation raised at body i:
\* the call raises, bodies 1 .. i were processed in order and no later one,
\* and the current body is body i
RaisedAtBody ==
    (last'.op \in DispatchOps /\ last'.raised \in {"NotImplementedError", "Error"}) =>
        LET ops == SelectSeq(last'.calls, IsSingleOp)
            i == Len(ops)
        IN  /\ i \in 1 .. Len(nanflat_body_a)
            /\ \A j \in 1 .. i :
                  /\ ops[j].ev = SingleOp[last'.op]
                  /\ ops[j].body = nanflat_body_a[j]
            /\ body' = nanflat_body_a[i]
            /\ last'.shape = "none"

\* C16: if the single-body operation raises while a dispatch call is at
\* body i, the call raises that error, the bodies after i are not
\* processed, and the current body stays body i instead of the first
\* flattened body; a current body that is not the first flattened body
\* stays so until a later dispatch call completes, and is the first
\* flattened body again when one does.
C16_StaleUntilDispatchCompletes ==
    [][/\ RaisedAtBody
       /\ (phase = "ready" /\ body # nanflat_body_a[1]) =>
              (body' = nanflat_body_a[1] <=> (last'.op \in DispatchOps /\ last'.raised = "no"))
      ]_vars

\* C16, amended: a dispatch call in which the single-body operation raises
\* at body i raises that error, processes no later body and leaves the
\* current body at body i. Afterwards only dispatch calls move the current
\* body: one that returns sets it to the first flattened body, except
\* space_train in an evaluation mode, which leaves it where it is; one that
\* raises at body j leaves it at body j, which may be the first; and
\* space_sample that fails after its loop has already set it back.
C16_RaisedDispatchLeavesBody ==
    [][/\ RaisedAtBody
       /\ (phase = "ready" /\ last'.op \notin DispatchOps) => body' = body
       /\ (last'.op \in DispatchOps /\ last'.raised = "no") =>
              body' = IF last'.op = "space_train" /\ in_eval_lab_modes THEN body
                      ELSE nanflat_body_a[1]
       /\ (last'.op \in DispatchOps /\ last'.raised = "AttributeError") =>
              /\ last'.op = "space_sample"
              /\ body' = nanflat_body_a[1]
      ]_vars

C16_Witness ==
    /\ last.op = "space_act"
    /\ last.raised = "NotImplementedError"
    /\ Len(nanflat_body_a) = 2
    /\ Len(last.calls) = 2
    /\ body = nanflat_body_a[2]
    /\ last.pre_body = nanflat_body_a[1]

\* C17: load() writes terminal values only onto the body that is current
\* when it is called; every other body's variables, the current-body
\* pointer and the algorithm's own attributes are as they were, and on the
\* current body only variables named by a scheduler with an end_val change.
C17_LoadWritesCurrentBodyOnly ==
    [][(phase = "ready" /\ last'.op = "load") =>
           /\ \A c \in Coords \ {body} : bodyvars'[c] = bodyvars[c]
           /\ \A j \in Writes(last') : last'.calls[j].body = body
           /\ \A n \in VarNames :
                 bodyvars'[body][n] # bodyvars[body][n] =>
                     \E i \in WithEndVal : replace(schedulers[i].k) = n
           /\ UNCHANGED <<body, attrs, net_names, schedulers, init_log>>
      ]_vars

C17_Witness ==
    /\ Returned("load")
    /\ Len(nanflat_body_a) = 2
    /\ body = nanflat_body_a[2]
    /\ Writes(last) # {}
    /\ \A n \in VarNames : bodyvars[nanflat_body_a[1]][n] = 0
    /\ \E n \in VarNames : bodyvars[body][n] # 0

====
